---- MODULE Spec2Model ----
(***************************************************************************)
(* store.locator.py: grouping of geolocated stores into per-state batches  *)
(* of at most nine, one distance-matrix request and one HTML report per    *)
(* batch, and the rendering of the distance table of a batch.              *)
(*                                                                         *)
(* Spec      : a run of main() after fwdGeoLocate has returned.            *)
(* SpecTable : one call of createDistanceTable on a small batch and an     *)
(*             arbitrary distance-matrix response.                         *)
(* SpecLong  : a run of main() in an empty html/ directory over up to 91   *)
(*             stores of one state followed by at most two of another.     *)
(* SpecLink  : one call of createDistanceTable on a batch of up to five    *)
(*             distinct addresses and a response listing some of them.     *)
(***************************************************************************)
EXTENDS Integers, Sequences, FiniteSets, TLC

\* ---------------------------------------------------------------- bounds
MaxLen == 11        \* longest list of stores returned by fwdGeoLocate
MaxSuffix == 2      \* largest numeric suffix of a report left by an earlier run
MaxBatchT == 3      \* SpecTable: longest batch / destination list
NumAddr == 3        \* SpecTable: number of distinct formatted addresses
MaxLinkLen == 5     \* SpecLink: longest batch / destination list
MaxLongLen == 91    \* SpecLong: most stores of the first state (eleven batches)
MaxTailLen == 2     \* SpecLong: most stores of the second state

\* ------------------------------------------------------ program constants
MAX_BATCH_SIZE == 9 \* the literal of line 56

Keys == {"CA", "NY"}                       \* store[2][-2::], two state codes
KeyRank(k) == IF k = "CA" THEN 1 ELSE 2    \* string order of the state codes

NoState == ""       \* the falsy initial value of `state` (line 48)
NoIndex == 0        \* destinationIndex before its first assignment

VARIABLES
    storesCoords,     \* list returned by fwdGeoLocate (line 45)
    idx,              \* position of `store` in the for loop of line 52
    state,            \* target state code (line 48)
    locations,        \* batch under construction (line 49); parameter of createDistanceTable
    pc,               \* position of the run
    ret,              \* which call site of lines 57/63/68/72 is active
    routeMatrixJSON,  \* result of requestRouteMatrix
    htmlTable,        \* result of createDistanceTable
    files,            \* html/<state>-<n>.html : name -> content
    indexMenu,        \* options written to html/index.html
    emitted,          \* history: batches passed to requestRouteMatrix, in order
    written,          \* history: reports written by this run, in order
    log               \* history: calls made by main, in order

vars == <<storesCoords, idx, state, locations, pc, ret, routeMatrixJSON,
          htmlTable, files, indexMenu, emitted, written, log>>

\* ------------------------------------------------------------------ data
\* one element of storesCoords: store[0], store[2][-2::], store[3]
Store(i, k, a) == [id |-> i, key |-> k, addr |-> a]

\* sorted(storesCoords, key=lambda store: store[2][-2::]) returns a list whose
\* state codes are in non-decreasing order
IsSortedByState(s) ==
    \A p \in 1..Len(s) : \A q \in 1..Len(s) :
        p < q => KeyRank(s[p].key) <= KeyRank(s[q].key)

\* the lists fwdGeoLocate can return, up to MaxLen stores
GeoLocated ==
    UNION { { [p \in 1..n |-> Store(p, ks[p], p)] : ks \in [1..n -> Keys] }
            : n \in 0..MaxLen }

SortedStores == { s \in GeoLocated : IsSortedByState(s) }

\* str(n) as its decimal digits
RECURSIVE DecStr(_)
DecStr(n) == IF n < 10 THEN <<n>> ELSE DecStr(n \div 10) \o <<n % 10>>

\* html/<state>-<n>.html
FileName(k, n) == [key |-> k, suffix |-> DecStr(n)]

\* content of a report left by an earlier run
OldReport == [map |-> <<>>, table |-> <<>>]

\* directories an earlier run (and later deletions) can leave behind
InitialDirs ==
    { [f \in { FileName(nm[1], nm[2]) : nm \in S } |-> OldReport]
      : S \in SUBSET (Keys \X (0..MaxSuffix)) }

\* ------------------------------------------------- distance-matrix result
\* urllib.parse.quote
Quote(a) == <<"quoted", a>>

\* rows[i].elements[j] measures origin i -> destination j; an element whose
\* status is not OK carries no "distance" member
Matrix(dests, bad) ==
    [destination_addresses |-> dests,
     rows |-> [i \in 1..Len(dests) |->
                 [j \in 1..Len(dests) |->
                    [r |-> i, c |-> j, ok |-> <<i, j>> \notin bad]]]]

Addresses(batch) == [p \in 1..Len(batch) |-> batch[p].addr]

\* what the service answers to the request of requestRouteMatrix: the
\* addresses in request order, every element OK or one element without result
GoogleResponses(batch) ==
    { Matrix(Addresses(batch), {}),
      Matrix(Addresses(batch), {<<1, Len(batch)>>}) }

\* ---------------------------------------------------- createDistanceTable
Raised == [status |-> "raise", link |-> <<>>, header |-> <<>>, body |-> <<>>]

\* the link with the waypoints taken as destinations[1:-1]
WaypointsLinkAllInterior(destinations) ==
    LET n == Len(destinations) IN
    IF n = 0 THEN <<>>
    ELSE << [origin |-> <<Quote(destinations[1])>>,
             destination |-> IF n > 1 THEN <<Quote(destinations[n])>> ELSE <<>>,
             waypoints |-> IF n > 2
                           THEN [k \in 1..(n - 2) |-> Quote(destinations[k + 1])]
                           ELSE <<>>] >>

\* lines 229-240
WaypointsLink(destinations) ==
    LET n == Len(destinations) IN
    IF n = 0 THEN <<>>
    ELSE << [origin |-> <<Quote(destinations[1])>>,
             destination |-> IF n > 1 THEN <<Quote(destinations[n])>> ELSE <<>>,
             waypoints |-> IF n > 2
                           THEN [k \in 1..(n - 3) |-> Quote(destinations[k + 1])]
                           ELSE <<>>] >>

\* lines 245-253
TableHeader(locs) == [p \in 1..Len(locs) |-> <<locs[p].id, locs[p].addr>>]

\* a lookup that returns the last position of the address instead of the first
ListIndexLast(destinations, a) ==
    IF \E p \in 1..Len(destinations) : destinations[p] = a
    THEN CHOOSE p \in 1..Len(destinations) :
            /\ destinations[p] = a
            /\ \A q \in (p + 1)..Len(destinations) : destinations[q] # a
    ELSE NoIndex

\* destinations.index(a): first position, NoIndex when it raises ValueError
ListIndex(destinations, a) ==
    IF \E p \in 1..Len(destinations) : destinations[p] = a
    THEN CHOOSE p \in 1..Len(destinations) :
            /\ destinations[p] = a
            /\ \A q \in 1..(p - 1) : destinations[q] # a
    ELSE NoIndex

\* the row index line 276 uses after the try of lines 270-273
ResolveIndex(destinations, a, destinationIndex) ==
    IF ListIndex(destinations, a) # NoIndex
    THEN ListIndex(destinations, a)
    ELSE destinationIndex

\* the cells of one body row, in the order of the row's elements (lines 277-283)
RowCells(row) == [j \in 1..Len(row) |-> [r |-> row[j].r, c |-> row[j].c]]

\* lines 258-285: x counts the destinations, destinationIndex survives from
\* one iteration to the next, prints counts the executions of line 273
RECURSIVE TableDataRows(_, _, _, _, _, _)
TableDataRows(locs, json, x, destinationIndex, acc, prints) ==
    LET destinations == json.destination_addresses IN
    IF x > Len(destinations) THEN [status |-> "ok", body |-> acc, prints |-> prints]
    ELSE IF x > Len(locs)
         THEN [status |-> "raise", body |-> acc, prints |-> prints]  \* IndexError, line 264
    ELSE LET di == ResolveIndex(destinations, locs[x].addr, destinationIndex)
             pr == IF ListIndex(destinations, locs[x].addr) = NoIndex
                   THEN prints + 1 ELSE prints
         IN
         IF di = NoIndex
         THEN [status |-> "raise", body |-> acc, prints |-> pr]      \* UnboundLocalError, line 276
         ELSE IF di > Len(json.rows)
         THEN [status |-> "raise", body |-> acc, prints |-> pr]      \* IndexError, line 276
         ELSE IF \E j \in 1..Len(json.rows[di]) : ~json.rows[di][j].ok
         THEN [status |-> "raise", body |-> acc, prints |-> pr]      \* KeyError, line 279
         ELSE TableDataRows(locs, json, x + 1, di,
                  Append(acc, [hdr |-> <<locs[x].id, locs[x].addr>>,
                               cells |-> RowCells(json.rows[di])]), pr)

createDistanceTable(locs, json) ==
    LET rows == TableDataRows(locs, json, 1, NoIndex, <<>>, 0) IN
    IF rows.status = "raise" THEN Raised
    ELSE [status |-> "ok",
          link |-> WaypointsLink(json.destination_addresses),
          header |-> TableHeader(locs),
          body |-> rows.body]

\* number of "Lookup Failure" lines createDistanceTable prints (line 273)
LookupFailuresPrinted(locs, json) ==
    TableDataRows(locs, json, 1, NoIndex, <<>>, 0).prints

\* lines 199-204: one marker per location
createStaticMap(locs) == [p \in 1..Len(locs) |-> locs[p].id]

\* ------------------------------------------------------- buildHTMLPayload
\* glob.glob("html/" + state + "*.html")
Glob(dir, k) == { f \in DOMAIN dir : f.key = k }

\* lines 307-311
OutputFilename(locs, dir) ==
    LET k == locs[1].key IN
    IF FileName(k, 0) \in DOMAIN dir
    THEN FileName(k, Cardinality(Glob(dir, k)))
    ELSE FileName(k, 0)

\* open(name, "w") followed by writelines
WriteFile(dir, name, content) ==
    [f \in DOMAIN dir \cup {name} |-> IF f = name THEN content ELSE dir[f]]

\* --------------------------------------------------------- buildHTMLIndex
\* order of two decimal suffixes inside "<state>-<n>.html": the character
\* after the digits is ".", which sorts before every digit
RECURSIVE SuffixLess(_, _)
SuffixLess(a, b) ==
    IF a = <<>> THEN b # <<>>
    ELSE IF b = <<>> THEN FALSE
    ELSE IF a[1] # b[1] THEN a[1] < b[1]
    ELSE SuffixLess(Tail(a), Tail(b))

NameLess(f, g) ==
    \/ KeyRank(f.key) < KeyRank(g.key)
    \/ f.key = g.key /\ SuffixLess(f.suffix, g.suffix)

\* sorted(os.listdir("html/"))
RECURSIVE SortedNames(_)
SortedNames(S) ==
    IF S = {} THEN <<>>
    ELSE LET m == CHOOSE f \in S : \A g \in S \ {f} : NameLess(f, g)
         IN <<m>> \o SortedNames(S \ {m})

\* lines 338-343
MenuOption(f) ==
    [value |-> f, label |-> IF f.suffix = <<0>> THEN <<f.key>> ELSE <<f.key, f.suffix>>]

buildHTMLIndex(dir) ==
    LET names == SortedNames(DOMAIN dir) IN
    [p \in 1..Len(names) |-> MenuOption(names[p])]

\* ------------------------------------------------------------------ main
\* lines 72-73 passing `locations` instead of `storesCoords`
ArgAlwaysLocations == locations

\* the list main passes to requestRouteMatrix and buildHTMLPayload
Arg == IF ret = "single" THEN storesCoords ELSE locations

Event(op) == [op |-> op, batch |-> Len(emitted)]

Init ==
    /\ storesCoords \in SortedStores
    /\ files \in InitialDirs
    /\ idx = 1
    /\ state = NoState
    /\ locations = <<>>
    /\ pc = "start"
    /\ ret = "none"
    /\ routeMatrixJSON = Matrix(<<>>, {})
    /\ htmlTable = Raised
    /\ indexMenu = <<>>
    /\ emitted = <<>>
    /\ written = <<>>
    /\ log = <<>>

\* line 51
Start ==
    /\ pc = "start"
    /\ IF Len(storesCoords) > 1
       THEN pc' = "loop" /\ ret' = ret
       ELSE pc' = "request" /\ ret' = "single"
    /\ UNCHANGED <<storesCoords, idx, state, locations, routeMatrixJSON,
                   htmlTable, files, indexMenu, emitted, written, log>>

InLoop == pc = "loop" /\ idx <= Len(storesCoords)

\* lines 53-55
LoopInitial ==
    /\ InLoop
    /\ state = NoState
    /\ state' = storesCoords[idx].key
    /\ locations' = <<storesCoords[idx]>>
    /\ idx' = idx + 1
    /\ UNCHANGED <<storesCoords, pc, ret, routeMatrixJSON, htmlTable, files,
                   indexMenu, emitted, written, log>>

\* lines 56-57
LoopFull ==
    /\ InLoop
    /\ state # NoState
    /\ Len(locations) = MAX_BATCH_SIZE
    /\ pc' = "request"
    /\ ret' = "full"
    /\ UNCHANGED <<storesCoords, idx, state, locations, routeMatrixJSON,
                   htmlTable, files, indexMenu, emitted, written, log>>

\* lines 60-61 without the comparison of the state codes
LoopAppendAnyState ==
    /\ InLoop
    /\ state # NoState
    /\ Len(locations) # MAX_BATCH_SIZE
    /\ locations' = Append(locations, storesCoords[idx])
    /\ idx' = idx + 1
    /\ UNCHANGED <<storesCoords, state, pc, ret, routeMatrixJSON, htmlTable,
                   files, indexMenu, emitted, written, log>>

\* lines 60-61
LoopAppend ==
    /\ InLoop
    /\ state # NoState
    /\ Len(locations) # MAX_BATCH_SIZE
    /\ storesCoords[idx].key = state
    /\ locations' = Append(locations, storesCoords[idx])
    /\ idx' = idx + 1
    /\ UNCHANGED <<storesCoords, state, pc, ret, routeMatrixJSON, htmlTable,
                   files, indexMenu, emitted, written, log>>

\* lines 62-63
LoopNewState ==
    /\ InLoop
    /\ state # NoState
    /\ Len(locations) # MAX_BATCH_SIZE
    /\ storesCoords[idx].key # state
    /\ pc' = "request"
    /\ ret' = "newstate"
    /\ UNCHANGED <<storesCoords, idx, state, locations, routeMatrixJSON,
                   htmlTable, files, indexMenu, emitted, written, log>>

\* lines 67-68
LoopEnd ==
    /\ pc = "loop"
    /\ idx > Len(storesCoords)
    /\ pc' = "request"
    /\ ret' = "flush"
    /\ UNCHANGED <<storesCoords, idx, state, locations, routeMatrixJSON,
                   htmlTable, files, indexMenu, emitted, written, log>>

\* requestRouteMatrix with one retry: a failed request is sent again
requestRouteMatrixRetries ==
    /\ pc = "request"
    /\ emitted' = Append(emitted, Arg)
    /\ log' = Append(log, [op |-> "request", batch |-> Len(emitted) + 1])
    /\ \/ /\ pc' = "request"
          /\ IF log = <<>> THEN TRUE ELSE log[Len(log)].op # "request"
          /\ UNCHANGED routeMatrixJSON
       \/ /\ routeMatrixJSON' \in GoogleResponses(Arg)
          /\ pc' = "render"
    /\ UNCHANGED <<storesCoords, idx, state, locations, ret, htmlTable, files,
                   indexMenu, written>>

\* lines 143-178, called at lines 57, 63, 68, 72: the request either raises
\* (requests.get, response.json) or returns the decoded response
requestRouteMatrix ==
    /\ pc = "request"
    /\ emitted' = Append(emitted, Arg)
    /\ log' = Append(log, [op |-> "request", batch |-> Len(emitted) + 1])
    /\ \/ /\ pc' = "aborted"
          /\ UNCHANGED routeMatrixJSON
       \/ /\ routeMatrixJSON' \in GoogleResponses(Arg)
          /\ pc' = "render"
    /\ UNCHANGED <<storesCoords, idx, state, locations, ret, htmlTable, files,
                   indexMenu, written>>

\* lines 299-305 of buildHTMLPayload
buildHTMLPayloadRender ==
    /\ pc = "render"
    /\ LET t == createDistanceTable(Arg, routeMatrixJSON) IN
       IF t.status = "raise"
       THEN pc' = "aborted" /\ UNCHANGED <<htmlTable, log>>
       ELSE /\ htmlTable' = t
            /\ pc' = "write"
            /\ log' = Append(log, Event("render"))
    /\ UNCHANGED <<storesCoords, idx, state, locations, ret, routeMatrixJSON,
                   files, indexMenu, emitted, written>>

\* lines 307-319 of buildHTMLPayload; locations[0] raises IndexError on an
\* empty list
buildHTMLPayloadWrite ==
    /\ pc = "write"
    /\ IF Arg = <<>>
       THEN pc' = "aborted" /\ UNCHANGED <<files, written, log>>
       ELSE LET name == OutputFilename(Arg, files)
                content == [map |-> createStaticMap(Arg), table |-> htmlTable]
            IN /\ files' = WriteFile(files, name, content)
               /\ written' = Append(written, [name |-> name, content |-> content,
                                              fresh |-> name \notin DOMAIN files])
               /\ log' = Append(log, Event("write"))
               /\ pc' = "return"
    /\ UNCHANGED <<storesCoords, idx, state, locations, ret, routeMatrixJSON,
                   htmlTable, indexMenu, emitted>>

\* line 59 without the re-seeding of the batch: the store that hit the size
\* cap is lost
AfterFullDropsStore ==
    /\ pc = "return"
    /\ ret = "full"
    /\ locations' = <<>>
    /\ idx' = idx + 1
    /\ pc' = "loop"
    /\ UNCHANGED <<storesCoords, state, ret, routeMatrixJSON, htmlTable, files,
                   indexMenu, emitted, written, log>>

\* line 59
AfterFull ==
    /\ pc = "return"
    /\ ret = "full"
    /\ locations' = <<storesCoords[idx]>>
    /\ idx' = idx + 1
    /\ pc' = "loop"
    /\ UNCHANGED <<storesCoords, state, ret, routeMatrixJSON, htmlTable, files,
                   indexMenu, emitted, written, log>>

\* lines 65-66
AfterNewState ==
    /\ pc = "return"
    /\ ret = "newstate"
    /\ state' = storesCoords[idx].key
    /\ locations' = <<storesCoords[idx]>>
    /\ idx' = idx + 1
    /\ pc' = "loop"
    /\ UNCHANGED <<storesCoords, ret, routeMatrixJSON, htmlTable, files,
                   indexMenu, emitted, written, log>>

\* line 75, after the call of line 69 or 73 has returned
BuildIndex ==
    /\ pc = "return"
    /\ ret \in {"flush", "single"}
    /\ indexMenu' = buildHTMLIndex(files)
    /\ log' = Append(log, Event("index"))
    /\ pc' = "done"
    /\ UNCHANGED <<storesCoords, idx, state, locations, ret, routeMatrixJSON,
                   htmlTable, files, emitted, written>>

Next ==
    \/ Start
    \/ LoopInitial
    \/ LoopFull
    \/ LoopAppend
    \/ LoopNewState
    \/ LoopEnd
    \/ requestRouteMatrix
    \/ buildHTMLPayloadRender
    \/ buildHTMLPayloadWrite
    \/ AfterFull
    \/ AfterNewState
    \/ BuildIndex

Spec == Init /\ [][Next]_vars

\* -------------------------------------------------------------- SpecLong
\* sorted lists of up to MaxLongLen stores of CA followed by up to MaxTailLen
\* stores of NY
LongStores ==
    { [p \in 1..(n + m) |-> Store(p, IF p <= n THEN "CA" ELSE "NY", p)]
      : n \in 0..MaxLongLen, m \in 0..MaxTailLen }

\* a run that starts with no report files
InitLong ==
    /\ storesCoords \in LongStores
    /\ files = [f \in {} |-> OldReport]
    /\ idx = 1
    /\ state = NoState
    /\ locations = <<>>
    /\ pc = "start"
    /\ ret = "none"
    /\ routeMatrixJSON = Matrix(<<>>, {})
    /\ htmlTable = Raised
    /\ indexMenu = <<>>
    /\ emitted = <<>>
    /\ written = <<>>
    /\ log = <<>>

SpecLong == InitLong /\ [][Next]_vars

\* ------------------------------------------------------------- SpecTable
\* batches of up to MaxBatchT locations of one state; two locations may have
\* been geocoded to the same formatted address
TableBatches ==
    UNION { { [p \in 1..n |-> Store(p, "CA", as[p])] : as \in [1..n -> 1..NumAddr] }
            : n \in 0..MaxBatchT }

\* responses of any length and order; address 0 is an address string that
\* equals no location's formatted address
TableResponses ==
    UNION { { Matrix(d, bad) : d \in [1..n -> 0..NumAddr], bad \in {{}, {<<1, 1>>}} }
            : n \in 0..MaxBatchT }

InitTable ==
    /\ locations \in TableBatches
    /\ routeMatrixJSON \in TableResponses
    /\ pc = "table"
    /\ ret = "table"
    /\ storesCoords = <<>>
    /\ files = [f \in {} |-> OldReport]
    /\ idx = 1
    /\ state = NoState
    /\ htmlTable = Raised
    /\ indexMenu = <<>>
    /\ emitted = <<>>
    /\ written = <<>>
    /\ log = <<>>

\* line 305: htmlTable = createDistanceTable(locations, routeMatrixJSON)
CallCreateDistanceTable ==
    /\ pc = "table"
    /\ htmlTable' = createDistanceTable(locations, routeMatrixJSON)
    /\ pc' = "tabledone"
    /\ UNCHANGED <<storesCoords, idx, state, locations, ret, routeMatrixJSON,
                   files, indexMenu, emitted, written, log>>

NextTable == CallCreateDistanceTable

SpecTable == InitTable /\ [][NextTable]_vars

\* -------------------------------------------------------------- SpecLink
\* batches of up to MaxLinkLen locations with pairwise distinct addresses
LinkBatches ==
    { [p \in 1..n |-> Store(p, "CA", p)] : n \in 0..MaxLinkLen }

\* responses that list some or all of the batch's addresses, each once, in
\* any order
LinkResponses(batch) ==
    UNION { { Matrix(d, {}) :
                d \in { f \in [1..m -> 1..Len(batch)] :
                          \A p \in 1..m : \A q \in 1..m : f[p] = f[q] => p = q } }
            : m \in 0..Len(batch) }

InitLink ==
    /\ locations \in LinkBatches
    /\ routeMatrixJSON \in LinkResponses(locations)
    /\ pc = "table"
    /\ ret = "table"
    /\ storesCoords = <<>>
    /\ files = [f \in {} |-> OldReport]
    /\ idx = 1
    /\ state = NoState
    /\ htmlTable = Raised
    /\ indexMenu = <<>>
    /\ emitted = <<>>
    /\ written = <<>>
    /\ log = <<>>

NextLink == CallCreateDistanceTable

SpecLink == InitLink /\ [][NextLink]_vars

\* ================================================================ claims
RECURSIVE Concat(_)
Concat(batches) ==
    IF batches = <<>> THEN <<>> ELSE Head(batches) \o Concat(Tail(batches))

IsPrefix(a, b) == Len(a) <= Len(b) /\ SubSeq(b, 1, Len(a)) = a

AllEmitted == pc = "done"

\* C1: the batches passed to requestRouteMatrix, concatenated in call order,
\* are at every moment a prefix of the input list, and are the whole input
\* list, in order, once the run has completed.
PartitioningCompleteness ==
    /\ IsPrefix(Concat(emitted), storesCoords)
    /\ AllEmitted => Concat(emitted) = storesCoords

\* a completed run over a full-length input that was split in three
PartitioningCompletenessWitness ==
    /\ pc = "done"
    /\ Len(storesCoords) >= MAX_BATCH_SIZE + 2
    /\ Len(emitted) = 3
    /\ Concat(emitted) = storesCoords

\* C2 (as stated): every batch passed to requestRouteMatrix has between 1 and
\* 9 elements.
BatchSizeBound ==
    \A k \in 1..Len(emitted) :
        Len(emitted[k]) >= 1 /\ Len(emitted[k]) <= MAX_BATCH_SIZE

Homogeneous(batch) ==
    \A p \in 1..Len(batch) : \A q \in 1..Len(batch) : batch[p].key = batch[q].key

\* positions of storesCoords after which an emitted batch ends
Boundaries ==
    { Len(Concat(SubSeq(emitted, 1, k))) : k \in 1..Len(emitted) }

\* C3: with the input sorted by state code, all records of every emitted
\* batch have the same state code, and once all batches are emitted there is
\* a batch boundary at every place where the state code changes.
BatchKeyHomogeneity ==
    /\ \A k \in 1..Len(emitted) : Homogeneous(emitted[k])
    /\ AllEmitted =>
          \A p \in 1..(Len(storesCoords) - 1) :
              storesCoords[p].key # storesCoords[p + 1].key => p \in Boundaries

\* a batch cut at the size cap is directly followed by a batch of another state
BatchKeyHomogeneityWitness ==
    /\ pc = "done"
    /\ \E k \in 1..(Len(emitted) - 1) :
          /\ Len(emitted[k]) = MAX_BATCH_SIZE
          /\ emitted[k + 1][1].key # emitted[k][1].key

\* the two-state machine {EMPTY, ACCUMULATING(key, buffer)} of the
\* specification, run over input from position p; key = NoState is EMPTY
RECURSIVE SpecMachine(_, _, _, _, _)
SpecMachine(input, p, key, buffer, out) ==
    IF p > Len(input)
    THEN IF key = NoState THEN out ELSE Append(out, buffer)
    ELSE LET r == input[p] IN
         IF key = NoState
         THEN SpecMachine(input, p + 1, r.key, <<r>>, out)
         ELSE IF Len(buffer) = MAX_BATCH_SIZE
         THEN SpecMachine(input, p + 1, r.key, <<r>>, Append(out, buffer))
         ELSE IF r.key = key
         THEN SpecMachine(input, p + 1, key, Append(buffer, r), out)
         ELSE SpecMachine(input, p + 1, r.key, <<r>>, Append(out, buffer))

SpecBatches(input) == SpecMachine(input, 1, NoState, <<>>, <<>>)

\* C4 (as stated): for an input of two or more records the batches emitted
\* by a completed run are those of the specified two-state machine.
MachineEquivalence ==
    (AllEmitted /\ Len(storesCoords) >= 2) => emitted = SpecBatches(storesCoords)

\* C5 (as stated): with an empty input no batch is passed to
\* requestRouteMatrix, nothing is written and the run does not fail.
EmptyInputEmitsNothing ==
    storesCoords = <<>> /\ ret # "table" =>
        /\ emitted = <<>>
        /\ written = <<>>
        /\ pc # "aborted"

Distinct(s) == \A p \in 1..Len(s) : \A q \in 1..Len(s) : s[p] = s[q] => p = q

IsPermutation(a, b) ==
    /\ Len(a) = Len(b)
    /\ { a[p] : p \in 1..Len(a) } = { b[p] : p \in 1..Len(b) }

\* C6 (as stated): for a batch of distinct addresses and a response listing
\* exactly those addresses in any order, the cell of body row x under header
\* column j is the measurement from batch[x] to batch[j].
RowColumnAlignment ==
    LET dests == routeMatrixJSON.destination_addresses
        addrs == Addresses(locations)
    IN  ( /\ pc = "tabledone"
          /\ Distinct(addrs)
          /\ IsPermutation(addrs, dests)
          /\ \A i \in 1..Len(dests) : \A j \in 1..Len(dests) :
                routeMatrixJSON.rows[i][j].ok )
        => /\ htmlTable.status = "ok"
           /\ Len(htmlTable.body) = Len(locations)
           /\ \A x \in 1..Len(locations) :
                 /\ Len(htmlTable.body[x].cells) = Len(locations)
                 /\ \A j \in 1..Len(locations) :
                       /\ dests[htmlTable.body[x].cells[j].r] = addrs[x]
                       /\ dests[htmlTable.body[x].cells[j].c] = addrs[j]

\* C7 (as stated): buildHTMLPayload never writes to a name that exists.
NeverOverwrites ==
    \A p \in 1..Len(written) : written[p].fresh

\* C8 (as stated): two locations of a batch with the same formatted address
\* are never both rendered from the same matrix row without an error.
DuplicateAddressHandling ==
    pc = "tabledone" =>
        \A x \in 1..Len(locations) : \A y \in 1..Len(locations) :
            ( /\ x < y
              /\ locations[x].addr = locations[y].addr
              /\ htmlTable.status = "ok"
              /\ y <= Len(htmlTable.body) )
            => htmlTable.body[x].cells[1].r # htmlTable.body[y].cells[1].r

\* the p-th call of a run that processes its batches one after the other
ExpectedCall(p) ==
    [op |-> IF p % 3 = 1 THEN "request" ELSE IF p % 3 = 2 THEN "render" ELSE "write",
     batch |-> ((p - 1) \div 3) + 1]

\* C9: the calls of a run are request, render, write of batch 1, then of
\* batch 2, and so on, each batch requested exactly once; the index is built
\* last, after the report of the last batch of the input was written.
StrictlySequential ==
    /\ \A p \in 1..Len(log) :
          \/ log[p] = ExpectedCall(p)
          \/ /\ log[p].op = "index"
             /\ p = Len(log)
             /\ p = 3 * Len(emitted) + 1
             /\ Len(written) = Len(emitted)
             /\ Concat(emitted) = storesCoords
    /\ pc = "done" => Len(log) = 3 * Len(emitted) + 1 /\ log[Len(log)].op = "index"
    /\ Len(emitted) = Cardinality({ p \in 1..Len(log) : log[p].op = "request" })

\* the index was built after three batches were requested, rendered, written
StrictlySequentialWitness ==
    /\ pc = "done"
    /\ Len(log) = 10
    /\ log[10].op = "index"
    /\ log[7] = [op |-> "request", batch |-> 3]

\* C10 (as stated): when batch k ends in a fatal condition, the reports the
\* run wrote are those of batches 1..k-1 and each is on disk as written.
AbortKeepsEarlierReports ==
    pc = "aborted" =>
        /\ Len(written) = Len(emitted) - 1
        /\ \A j \in 1..Len(written) :
              /\ written[j].content.map = createStaticMap(emitted[j])
              /\ written[j].name \in DOMAIN files
              /\ files[written[j].name] = written[j].content

\* C11: with an input of exactly one record, at most one batch is ever
\* passed to requestRouteMatrix and it is the one-record input itself; a
\* completed run has made exactly one request and written exactly one
\* report, the report of that record.
SingleElementInput ==
    Len(storesCoords) = 1 =>
        /\ emitted = <<>> \/ emitted = <<storesCoords>>
        /\ Cardinality({ p \in 1..Len(log) : log[p].op = "request" }) = Len(emitted)
        /\ Len(written) <= 1
        /\ pc = "done" =>
              /\ emitted = <<storesCoords>>
              /\ Len(emitted[1]) = 1
              /\ Len(written) = 1
              /\ written[1].content.map = <<storesCoords[1].id>>
              /\ written[1].name \in DOMAIN files

\* a completed run over one record
SingleElementInputWitness ==
    /\ Len(storesCoords) = 1
    /\ pc = "done"
    /\ Len(emitted) = 1
    /\ Len(written) = 1

AllElementsOK ==
    \A i \in 1..Len(routeMatrixJSON.rows) :
        \A j \in 1..Len(routeMatrixJSON.rows[i]) : routeMatrixJSON.rows[i][j].ok

\* batch positions whose formatted address is not among the destinations
Misses ==
    { x \in 1..Len(locations) :
        \A p \in 1..Len(routeMatrixJSON.destination_addresses) :
            routeMatrixJSON.destination_addresses[p] # locations[x].addr }

\* C12 (as stated): with a well-formed response of the batch's length, a
\* location at any position, the first included, whose address is not among
\* the destinations is logged, does not abort the rendering and still gets
\* a row, the one of the position before it when there is one.
LookupMissIsNonFatal ==
    ( /\ pc = "tabledone"
      /\ AllElementsOK
      /\ Len(routeMatrixJSON.destination_addresses) = Len(locations) )
    => \A x \in Misses :
          /\ htmlTable.status = "ok"
          /\ LookupFailuresPrinted(locations, routeMatrixJSON) >= 1
          /\ x <= Len(htmlTable.body)
          /\ htmlTable.body[x].hdr = <<locations[x].id, locations[x].addr>>
          /\ x > 1 => htmlTable.body[x].cells = htmlTable.body[x - 1].cells

\* i is the smallest index at which address a occurs in the destinations
IsFirstOccurrence(i, a) ==
    /\ i \in 1..Len(routeMatrixJSON.destination_addresses)
    /\ routeMatrixJSON.destination_addresses[i] = a
    /\ \A q \in 1..(i - 1) : routeMatrixJSON.destination_addresses[q] # a

\* C13: every rendered row of a location whose formatted address occurs in
\* the destinations consists of the elements of rows[i], i the smallest
\* index of that address; so two rendered locations with the same formatted
\* address have the same cells.
FirstMatchRowSelection ==
    (pc = "tabledone" /\ htmlTable.status = "ok") =>
        /\ \A x \in 1..Len(htmlTable.body) :
              \A i \in 1..Len(routeMatrixJSON.destination_addresses) :
                 IsFirstOccurrence(i, locations[x].addr) =>
                    /\ Len(htmlTable.body[x].cells) = Len(routeMatrixJSON.rows[i])
                    /\ \A j \in 1..Len(routeMatrixJSON.rows[i]) :
                          /\ htmlTable.body[x].cells[j].r = i
                          /\ htmlTable.body[x].cells[j].c = j
        /\ \A x \in 1..Len(htmlTable.body) : \A y \in 1..Len(htmlTable.body) :
              ( /\ locations[x].addr = locations[y].addr
                /\ x \notin Misses )
              => htmlTable.body[x].cells = htmlTable.body[y].cells

\* two locations with the same address are rendered, and that address occurs
\* twice among the destinations, the second time at the second position
FirstMatchRowSelectionWitness ==
    /\ pc = "tabledone"
    /\ htmlTable.status = "ok"
    /\ Len(htmlTable.body) >= 2
    /\ locations[1].addr = locations[2].addr
    /\ routeMatrixJSON.destination_addresses[1] = locations[1].addr
    /\ routeMatrixJSON.destination_addresses[2] = locations[1].addr
    /\ htmlTable.body[2].cells[1].r = 1

\* C14: the table carries a route link exactly when the response lists at
\* least one destination; its origin is the first address; it has a
\* destination, the last address, exactly when there are two or more; with
\* n > 2 addresses its waypoints are the addresses at 0-based positions
\* 1..n-3 in order, none for n = 3; with n <= 2 there are no waypoints.
OptimizedRouteLink ==
    (pc = "tabledone" /\ htmlTable.status = "ok") =>
        LET d == routeMatrixJSON.destination_addresses
            n == Len(routeMatrixJSON.destination_addresses)
        IN  /\ (htmlTable.link # <<>>) <=> (n > 0)
            /\ n > 0 =>
                 /\ Len(htmlTable.link) = 1
                 /\ htmlTable.link[1].origin = <<Quote(d[1])>>
                 /\ (htmlTable.link[1].destination # <<>>) <=> (n > 1)
                 /\ n > 1 => htmlTable.link[1].destination = <<Quote(d[n])>>
                 /\ n <= 3 => htmlTable.link[1].waypoints = <<>>
                 /\ n > 3 =>
                      /\ Len(htmlTable.link[1].waypoints) = n - 3
                      /\ \A k \in 1..(n - 3) :
                            htmlTable.link[1].waypoints[k] = Quote(d[k + 1])

\* the destinations [A,B,C,D,E] with the waypoints [B,C]
OptimizedRouteLinkWitness ==
    /\ pc = "tabledone"
    /\ htmlTable.status = "ok"
    /\ routeMatrixJSON.destination_addresses = <<1, 2, 3, 4, 5>>
    /\ htmlTable.link[1].waypoints = <<Quote(2), Quote(3)>>
    /\ htmlTable.link[1].destination = <<Quote(5)>>

\* number of reports written before the p-th one for the same state code
EarlierOfKey(p) ==
    Cardinality({ q \in 1..(p - 1) : written[q].name.key = written[p].name.key })

\* C15 (as stated): in a run that started with no report files, the i-th
\* batch of state k is written to k-i, and the lexically sorted listing of
\* the index names the reports by state and then by batch sequence, that
\* is, in the order in which they were written.
LexicallySortableNaming ==
    (pc = "done" /\ DOMAIN files = { written[p].name : p \in 1..Len(written) }) =>
        /\ \A p \in 1..Len(written) :
              written[p].name = FileName(emitted[p][1].key, EarlierOfKey(p))
        /\ Len(indexMenu) = Len(written)
        /\ \A p \in 1..Len(written) : indexMenu[p].value = written[p].name

\* C16 (as stated): for every response whose elements are all OK and whose
\* first lookup succeeds, whatever the number of its destinations, the
\* rendering completes (no index past the end of the batch) and the table
\* has exactly one body row per batch location, in batch order.
OneBodyRowPerLocation ==
    ( /\ pc = "tabledone"
      /\ AllElementsOK
      /\ ~(1 \in Misses /\ Len(routeMatrixJSON.destination_addresses) >= 1) )
    => /\ htmlTable.status = "ok"
       /\ Len(htmlTable.body) = Len(locations)
       /\ \A x \in 1..Len(locations) :
             htmlTable.body[x].hdr = <<locations[x].id, locations[x].addr>>

====
